---- MODULE Spec2Model ----
\* A model of gotilities' cat (version 0.2, src/unnamed/part_000; simple_cat is
\* the same code in src/cat.go).  Bytes are numbers 0..255, byte slices are
\* sequences, and a slice's capacity is kept beside it where the code depends on it.
\* A command-line argument is the sequence of its characters, except that the
\* word after "--" is kept as one element.
EXTENDS Integers, Sequences, FiniteSets, TLC

\* ---------------------------------------------------------------- bounds
\* longest input (in bytes) of the exhaustive single-input runs
MaxLen == 3
\* most command-line arguments of the whole-program runs
MaxArgs == 3
\* st_blksize of a handle whose preferred block is larger than the default
BigBlksize == 8

\* most decimal digits of a line count the counter runs start from
MaxDigits == 20
\* a counter run is followed until the line count ends in this digit
StopDigit == 2

\* ------------------------------------------------------- program constants
\* 128*1024 in the source, scaled down so that inputs reach and pass it
IO_BLK_SIZE_DEFAULT == 3
LINE_COUNTER_BUF_LEN == 19
NL == 10
TAB == 9

Max(a, b) == IF a >= b THEN a ELSE b
Min(a, b) == IF a <= b THEN a ELSE b
Drop(s, n) == SubSeq(s, n + 1, Len(s))
Take(s, n) == SubSeq(s, 1, n)

\* ------------------------------------------------------------ environment
\* bytes the exhaustive runs build inputs from: newline, 'a', tab
Alphabet == {NL, 97, TAB}
Inputs == UNION {[1..n -> Alphabet] : n \in 0..MaxLen}
\* one byte of every value but newline, for the escaping table
ByteInputs == {<<b>> : b \in (0..255) \ {NL}}

\* the files of the whole-program runs: f, g exist, x does not
FileF == <<97, NL, 98, NL>>
FileG == <<99, NL>>
StdinData == <<100, NL>>
FixedFs == [f |-> FileF, g |-> FileG]

\* st_blksize values a handle may report
StatBlksizes == {1, BigBlksize}

ShortFlags == {"b", "n", "s", "E", "v", "T"}
\* the flag letters in a fixed order, those in S kept
FlagLetters(S) == SelectSeq(<<"b", "n", "s", "E", "v", "T">>, LAMBDA c : c \in S)
FlagArgs(S) == IF S = {} THEN <<>> ELSE << <<"-">> \o FlagLetters(S) >>

ArgSet == { <<"-", "n">>, <<"-", "b">>, <<"-", "s">>, <<"-", "z">>,
            <<"-", "-", "help">>, <<"-", "-", "version">>,
            <<"f">>, <<"g">>, <<"x">>, <<"-">> }
ArgLists == UNION {[1..n -> ArgSet] : n \in 0..MaxArgs}

\* line counts the counter runs start from, as decimal digits: n digits, the
\* last m of them 9, the digit before those x, the first one lead, 0 between;
\* the counts that end in 8 or 9, so that the calls cross every kind of carry
KDigits(n, m, lead, x) ==
    [j \in 1..n |-> IF j > n - m THEN 9 ELSE IF j = n - m THEN x
                    ELSE IF j = 1 THEN lead ELSE 0]
KSet == { ds \in { KDigits(n, m, lead, x) :
                    n \in 1..MaxDigits, m \in 0..MaxDigits,
                    lead \in {1, 9}, x \in {0, 1, 8} } :
            ds # <<>> /\ ds[1] # 0 /\ ds[Len(ds)] \in {8, 9} }

VARIABLES number_nonblank, number, squeeze_blank, show_nonprinting, show_tabs,
          show_ends, special_flag, use_fionread,
          new_lines_static, line_num_buf, line_num_start_idx, line_num_print_idx,
          args, i, first_file, ret, defers, idx,
          fs, blksize, stdin_data, stdin_open, fDes, src,
          in_buf, in_cap, in_size, out_buf, new_lines, ch,
          stdout, pc, exit_code, panicking, fault, handled, result, flushed,
          calls

opts == <<number_nonblank, number, squeeze_blank, show_nonprinting, show_tabs,
          show_ends, special_flag, use_fionread>>
counter == <<line_num_buf, line_num_start_idx, line_num_print_idx, calls>>
mainv == <<args, i, first_file, ret, defers, idx>>
envv == <<fs, blksize>>
catv == <<in_buf, in_cap, in_size, out_buf, new_lines, ch>>
vars == <<opts, new_lines_static, counter, mainv, envv, stdin_data, stdin_open,
          fDes, src, catv, stdout, pc, exit_code, panicking, fault, handled, result,
          flushed>>

\* out_bSize of main: max(out_stat.Blksize, IO_BLK_SIZE_DEFAULT); standard
\* output reports the small block size
out_bSize == Max(1, IO_BLK_SIZE_DEFAULT)

\* no flush check has just been made
NoFlush == [before |-> <<>>, sink |-> <<>>, writes |-> <<>>]

\* line_num_buf as declared: 17 spaces, '0', tab
InitLineNumBuf ==
    [k \in 1..LINE_COUNTER_BUF_LEN |->
        IF k = LINE_COUNTER_BUF_LEN THEN TAB
        ELSE IF k = LINE_COUNTER_BUF_LEN - 1 THEN 48 ELSE 32]

\* the state main starts in: the package-level initialisers and os.Args
InitGlobals ==
    /\ number_nonblank = FALSE /\ number = FALSE /\ squeeze_blank = FALSE
    /\ show_nonprinting = FALSE /\ show_tabs = FALSE /\ show_ends = FALSE
    /\ special_flag = "" /\ use_fionread = TRUE
    /\ new_lines_static = 0
    /\ line_num_buf = InitLineNumBuf
    /\ line_num_start_idx = LINE_COUNTER_BUF_LEN - 2
    /\ line_num_print_idx = LINE_COUNTER_BUF_LEN - 7
    /\ first_file = -1 /\ ret = TRUE /\ defers = <<>> /\ idx = -1
    /\ stdin_open = TRUE /\ fDes = "none" /\ src = <<>>
    /\ in_buf = <<>> /\ in_cap = 0 /\ in_size = 0 /\ out_buf = <<>>
    /\ new_lines = 0 /\ ch = 0
    /\ stdout = <<>> /\ pc = "main" /\ exit_code = -1 /\ panicking = FALSE
    /\ fault = "none" /\ handled = <<>> /\ result = "none"
    /\ flushed = NoFlush
    /\ calls = <<0>>

\* whole-program runs: any short argument list over the fixed files
Init ==
    /\ InitGlobals
    /\ args \in ArgLists
    /\ i = Len(args) - 1
    /\ fs = FixedFs
    /\ stdin_data = StdinData
    /\ blksize \in StatBlksizes

\* single-input runs: file f holds any input up to MaxLen under any option
\* combination (given as one group of short flags), or one byte of any value
\* under any combination of -v and -T
InitCat ==
    /\ InitGlobals
    /\ \E S \in SUBSET ShortFlags, data \in Inputs \cup ByteInputs :
          /\ data \in Inputs \/ S \subseteq {"v", "T"}
          /\ args = FlagArgs(S) \o << <<"f">> >>
          /\ fs = [f |-> data]
    /\ i = Len(args) - 1
    /\ stdin_data = <<>>
    /\ blksize \in StatBlksizes

\* second inputs of the two-input runs: beginning with one blank line, with
\* two, with none, and empty
Seconds == { <<NL, 97, NL>>, <<NL, NL, 97, NL>>, <<97, NL>>, <<>> }

\* the option sets of the two-input runs: none, -s, -nE
PairFlags == { {}, {"s"}, {"n", "E"} }

\* two-input runs: file f holds any input up to MaxLen and file g one of
\* Seconds, under each option set of PairFlags
InitPair ==
    /\ InitGlobals
    /\ \E S \in PairFlags, first \in Inputs, second \in Seconds :
          /\ args = FlagArgs(S) \o << <<"f">>, <<"g">> >>
          /\ fs = [f |-> first, g |-> second]
    /\ i = Len(args) - 1
    /\ stdin_data = <<>>
    /\ blksize \in StatBlksizes

\* the counter after as many calls of next_line_num as the digits ds say: the
\* digits end at the tab, line_num_start_idx is at the first of them and
\* line_num_print_idx at the sixth position from the tab or at the first digit;
\* a count of more digits than the field has leaves '>' and its last digits
CounterAfter(ds) ==
    LET w == LINE_COUNTER_BUF_LEN - 1
        n == Len(ds)
    IN IF n <= w
       THEN [buf |-> [j \in 1..LINE_COUNTER_BUF_LEN |->
                        IF j = LINE_COUNTER_BUF_LEN THEN TAB
                        ELSE IF j <= w - n THEN 32 ELSE 48 + ds[j - (w - n)]],
             start |-> w - n,
             print |-> Min(LINE_COUNTER_BUF_LEN - 7, w - n)]
       ELSE [buf |-> [j \in 1..LINE_COUNTER_BUF_LEN |->
                        IF j = LINE_COUNTER_BUF_LEN THEN TAB
                        ELSE IF j = 1 THEN 62 ELSE 48 + ds[j + (n - w)]],
             start |-> 0, print |-> 0]

\* counter runs: the counter as the program starts it, or as a run has left
\* it after a count of KSet; only next_line_num is called
InitCounter ==
    /\ number_nonblank = FALSE /\ number = TRUE /\ squeeze_blank = FALSE
    /\ show_nonprinting = FALSE /\ show_tabs = FALSE /\ show_ends = FALSE
    /\ special_flag = "" /\ use_fionread = TRUE
    /\ new_lines_static = 0
    /\ calls \in KSet \cup {<<0>>}
    /\ line_num_buf = CounterAfter(calls).buf
    /\ line_num_start_idx = CounterAfter(calls).start
    /\ line_num_print_idx = CounterAfter(calls).print
    /\ args = << <<"-", "n">>, <<"f">> >> /\ i = -1
    /\ first_file = 1 /\ ret = TRUE /\ defers = <<>> /\ idx = 1
    /\ fs = FixedFs /\ blksize = BigBlksize /\ stdin_data = <<>>
    /\ stdin_open = TRUE /\ fDes = "file" /\ src = <<>>
    /\ in_buf = <<>> /\ in_cap = 0 /\ in_size = 0 /\ out_buf = <<>>
    /\ new_lines = 0 /\ ch = 0
    /\ stdout = <<>> /\ pc = "next_line_num" /\ exit_code = -1
    /\ panicking = FALSE /\ fault = "none" /\ handled = <<1>>
    /\ result = "none" /\ flushed = NoFlush

\* runs of cat() alone with every option false: the state in which
\* handle_file would call cat(fDes, in_buf, in_size, out_buf, out_bSize) on
\* file f, which holds any input up to MaxLen
InitFast ==
    /\ number_nonblank = FALSE /\ number = FALSE /\ squeeze_blank = FALSE
    /\ show_nonprinting = FALSE /\ show_tabs = FALSE /\ show_ends = FALSE
    /\ special_flag = "" /\ use_fionread = TRUE
    /\ new_lines_static = 0
    /\ calls = <<0>>
    /\ line_num_buf = InitLineNumBuf
    /\ line_num_start_idx = LINE_COUNTER_BUF_LEN - 2
    /\ line_num_print_idx = LINE_COUNTER_BUF_LEN - 7
    /\ args = << <<"f">> >> /\ i = -1
    /\ first_file = 0 /\ ret = TRUE /\ defers = <<>> /\ idx = 0
    /\ fs \in {[f |-> data] : data \in Inputs}
    /\ blksize \in StatBlksizes /\ stdin_data = <<>>
    /\ stdin_open = TRUE /\ fDes = "file" /\ src = fs.f
    /\ in_size = Max(Max(blksize, IO_BLK_SIZE_DEFAULT), out_bSize)
    /\ in_buf = <<>> /\ in_cap = in_size + 1 /\ out_buf = <<>>
    /\ new_lines = 0 /\ ch = 0
    /\ stdout = <<>> /\ pc = "cat_top" /\ exit_code = -1
    /\ panicking = FALSE /\ fault = "none" /\ handled = <<0>>
    /\ result = "none" /\ flushed = NoFlush

\* ------------------------------------------------------------ checkForFlag
Opt == [number_nonblank |-> number_nonblank, number |-> number,
        squeeze_blank |-> squeeze_blank, show_nonprinting |-> show_nonprinting,
        show_tabs |-> show_tabs, show_ends |-> show_ends,
        special_flag |-> special_flag]

\* the switch on a long flag's word (after "--")
LongFlag(o, w) ==
    CASE w = "number-nonblank" -> [o EXCEPT !.number_nonblank = TRUE]
      [] w = "number" -> [o EXCEPT !.number = TRUE]
      [] w = "squeeze-blank" -> [o EXCEPT !.squeeze_blank = TRUE]
      [] w = "show-tabs" -> [o EXCEPT !.show_tabs = TRUE]
      [] w = "show-ends" -> [o EXCEPT !.show_ends = TRUE]
      [] w = "show-all" -> [o EXCEPT !.show_tabs = TRUE, !.show_ends = TRUE,
                                     !.show_nonprinting = TRUE]
      [] w = "show-nonprinting" -> [o EXCEPT !.show_nonprinting = TRUE]
      [] OTHER -> [o EXCEPT !.special_flag = w]

\* the switch on one character of a group of short flags
ShortFlag(o, c) ==
    CASE c = "b" -> [o EXCEPT !.number_nonblank = TRUE]
      [] c = "n" -> [o EXCEPT !.number = TRUE]
      [] c = "s" -> [o EXCEPT !.squeeze_blank = TRUE]
      [] c = "t" -> [o EXCEPT !.show_tabs = TRUE, !.show_nonprinting = TRUE]
      [] c = "E" -> [o EXCEPT !.show_ends = TRUE]
      [] c = "A" -> [o EXCEPT !.show_tabs = TRUE, !.show_ends = TRUE,
                              !.show_nonprinting = TRUE]
      [] c = "e" -> [o EXCEPT !.show_ends = TRUE, !.show_nonprinting = TRUE]
      [] c = "v" -> [o EXCEPT !.show_nonprinting = TRUE]
      [] c = "T" -> [o EXCEPT !.show_tabs = TRUE]
      [] c = "u" -> o
      [] OTHER -> [o EXCEPT !.special_flag = c]

RECURSIVE ShortFlagLoop(_, _)
ShortFlagLoop(o, cs) ==
    IF cs = <<>> THEN o ELSE ShortFlagLoop(ShortFlag(o, Head(cs)), Tail(cs))

\* checkForFlag(arg): whether arg is a flag, and the options after it
checkForFlag(o, arg) ==
    IF Len(arg) # 0 /\ arg[1] # "-" THEN [flag |-> FALSE, o |-> o]
    ELSE IF Len(arg) > 2 /\ arg[1] = "-" /\ arg[2] = "-"
         THEN [flag |-> TRUE, o |-> LongFlag(o, arg[3])]
    ELSE IF Len(arg) > 1 /\ arg[1] = "-"
         THEN [flag |-> TRUE, o |-> ShortFlagLoop(o, Tail(arg))]
    ELSE [flag |-> FALSE, o |-> o]

SetOpts(o) ==
    /\ number_nonblank' = o.number_nonblank /\ number' = o.number
    /\ squeeze_blank' = o.squeeze_blank /\ show_nonprinting' = o.show_nonprinting
    /\ show_tabs' = o.show_tabs /\ show_ends' = o.show_ends
    /\ special_flag' = o.special_flag
    /\ UNCHANGED use_fionread

\* -------------------------------------------------------------------- main
\* main, up to its loop: no argument means standard input
MainStart ==
    /\ pc = "main"
    /\ args' = IF Len(args) < 1 THEN << <<"-">> >> ELSE args
    /\ i' = Len(args') - 1
    /\ pc' = "main_loop"
    /\ UNCHANGED <<flushed, opts, new_lines_static, counter, first_file, ret, defers, idx,
                   envv, stdin_data, stdin_open, fDes, src, catv, stdout,
                   exit_code, panicking, fault, handled, result>>

\* one iteration of main's loop over the arguments, last argument first
MainArg ==
    /\ pc = "main_loop"
    /\ i >= 0
    /\ LET r == checkForFlag(Opt, args[i + 1])
           route == r.flag /\ i = 0 /\ first_file = -1
       IN /\ SetOpts(r.o)
          /\ IF r.flag /\ ~route
             THEN UNCHANGED <<args, first_file, defers>>
             ELSE /\ args' = IF route THEN [args EXCEPT ![i + 1] = <<"-">>] ELSE args
                  /\ first_file' = i
                  /\ defers' = <<i>> \o defers
    /\ i' = i - 1
    /\ UNCHANGED <<flushed, new_lines_static, counter, ret, idx, envv, stdin_data,
                   stdin_open, fDes, src, catv, stdout, pc, exit_code, panicking,
                   fault, handled, result>>

\* what printUsage and the version branch print on standard output, cut down
\* to the first word ("Usage", "cat")
UsageText == <<85, 115, 97, 103, 101>>
VersionText == <<99, 97, 116>>

\* main without the special-flag test: it always returns into its deferred calls
MainSpecialLate ==
    /\ pc = "main_loop"
    /\ i < 0
    /\ pc' = "defers"
    /\ UNCHANGED <<flushed, opts, new_lines_static, counter, mainv, envv, stdin_data,
                   stdin_open, fDes, src, catv, stdout, exit_code, panicking,
                   fault, handled, result>>

\* after the loop: the special flag exits the process (help and version after
\* printing their text on standard output, an invalid flag with status 1),
\* else main returns and its deferred calls start
MainSpecial ==
    /\ pc = "main_loop"
    /\ i < 0
    /\ IF special_flag = "" THEN pc' = "defers" /\ UNCHANGED <<exit_code, stdout>>
       ELSE /\ pc' = "exit"
            /\ exit_code' = IF special_flag \in {"help", "version"} THEN 0 ELSE 1
            /\ stdout' = IF special_flag = "help" THEN stdout \o UsageText
                         ELSE IF special_flag = "version" THEN stdout \o VersionText
                         ELSE stdout
    /\ UNCHANGED <<flushed, opts, new_lines_static, counter, mainv, envv, stdin_data,
                   stdin_open, fDes, src, catv, panicking, fault,
                   handled, result>>

\* the rest of a deferred closure once handle_file gave r (or was not called)
ClosureTail(id, r) ==
    /\ ret' = (ret /\ r)
    /\ IF id = first_file
       THEN pc' = "exit" /\ exit_code' = (IF ret /\ r THEN 0 ELSE 1)
       ELSE pc' = "defers" /\ UNCHANGED exit_code

\* the next deferred closure starts: *x && handle_file(...) calls handle_file
\* only while *x is true
DeferCall ==
    /\ pc = "defers"
    /\ defers # <<>>
    /\ idx' = Head(defers)
    /\ defers' = Tail(defers)
    /\ IF ret THEN pc' = "handle_file" /\ UNCHANGED <<ret, exit_code>>
       ELSE ClosureTail(Head(defers), FALSE)
    /\ UNCHANGED <<flushed, opts, new_lines_static, counter, args, i, first_file, envv,
                   stdin_data, stdin_open, fDes, src, catv, stdout, panicking,
                   fault, handled, result>>

\* no deferred call is left: the process ends, with status 2 after a panic
MainDone ==
    /\ pc = "defers"
    /\ defers = <<>>
    /\ pc' = "exit"
    /\ exit_code' = IF panicking THEN 2 ELSE 0
    /\ UNCHANGED <<flushed, opts, new_lines_static, counter, mainv, envv, stdin_data,
                   stdin_open, fDes, src, catv, stdout, panicking, fault,
                   handled, result>>

\* ------------------------------------------------------------- handle_file
NoDisplayOption ==
    ~(number \/ show_ends \/ show_nonprinting \/ show_tabs \/ squeeze_blank)

\* handle_file up to the call of simple_cat or cat: the Source is resolved (a
\* name starting with '-' is standard input), Fstat gives the block size, and
\* the buffers are made.  A failed open returns false at once; Fstat of the
\* closed standard input panics.
HandleFile ==
    /\ pc = "handle_file"
    /\ handled' = Append(handled, idx)
    /\ LET fName == args[idx + 1]
           isStdin == fName[1] = "-"
           in_bSize == Max(blksize, IO_BLK_SIZE_DEFAULT)
       IN IF ~isStdin /\ fName[1] \notin DOMAIN fs
          THEN /\ ClosureTail(idx, FALSE)
               /\ UNCHANGED <<fDes, src, catv, result>>
          ELSE /\ fDes' = IF isStdin THEN "stdin" ELSE "file"
               /\ UNCHANGED <<ret, exit_code>>
               /\ IF isStdin /\ ~stdin_open
                  THEN /\ result' = "panic" /\ pc' = "hf_return"
                       /\ UNCHANGED <<src, catv>>
                  ELSE /\ src' = IF isStdin THEN stdin_data ELSE fs[fName[1]]
                       /\ in_size' = Max(in_bSize, out_bSize)
                       /\ in_buf' = <<>> /\ out_buf' = <<>>
                       /\ UNCHANGED <<ch, result>>
                       /\ IF NoDisplayOption
                          THEN /\ pc' = "simple_cat"
                               /\ in_cap' = in_size'
                               /\ UNCHANGED new_lines
                          ELSE /\ pc' = "cat_top"
                               /\ in_cap' = in_size' + 1
                               /\ new_lines' = new_lines_static
    /\ UNCHANGED <<flushed, opts, new_lines_static, counter, args, i, first_file, defers,
                   idx, envv, stdin_data, stdin_open, stdout, panicking, fault>>

\* handle_file returns: its deferred Close runs on every path, then the
\* closure that called it goes on, unless a panic is unwinding
HandleFileReturn ==
    /\ pc = "hf_return"
    /\ stdin_open' = IF fDes = "stdin" THEN FALSE ELSE stdin_open
    /\ stdin_data' = IF fDes = "stdin" THEN src ELSE stdin_data
    /\ fDes' = "none"
    /\ result' = "none"
    /\ IF result = "panic"
       THEN /\ panicking' = TRUE /\ pc' = "defers"
            /\ UNCHANGED <<ret, exit_code>>
       ELSE /\ ClosureTail(idx, result = "ok")
            /\ UNCHANGED panicking
    /\ UNCHANGED <<flushed, opts, new_lines_static, counter, args, i, first_file, defers,
                   idx, envv, src, catv, stdout, fault, handled>>

\* -------------------------------------------------------------- simple_cat
\* one iteration of simple_cat's loop: a read of up to len(buf) bytes and the
\* write of exactly the bytes read
SimpleWriteShort(buf, n) == Take(buf, n - 1)
SimpleWrite(buf, n) == Take(buf, n)

SimpleCat ==
    /\ pc = "simple_cat"
    /\ \E rfail \in BOOLEAN, w \in {"ok", "write", "short"},
          n \in 0..Min(Len(src), in_cap) :
         /\ (n = 0) = (src = <<>>)
         /\ IF rfail
            THEN /\ fault' = "read" /\ result' = "fail" /\ pc' = "hf_return"
                 /\ UNCHANGED <<src, stdout>>
            ELSE IF n = 0
            THEN /\ result' = "ok" /\ pc' = "hf_return"
                 /\ UNCHANGED <<src, stdout, fault>>
            ELSE /\ src' = Drop(src, n)
                 /\ IF w = "ok"
                    THEN /\ stdout' = stdout \o SimpleWrite(Take(src, n), n)
                         /\ UNCHANGED <<fault, result, pc>>
                    ELSE /\ fault' = w
                         /\ result' = IF w = "write" THEN "fail" ELSE "panic"
                         /\ pc' = "hf_return"
                         /\ UNCHANGED stdout
    /\ UNCHANGED <<flushed, opts, new_lines_static, counter, mainv, envv, stdin_data,
                   stdin_open, fDes, catv, exit_code, panicking, handled>>

\* ----------------------------------------------------------- next_line_num
\* the carry loop: digits from end_idx down to line_num_start_idx
RECURSIVE Ripple(_, _, _)
Ripple(buf, end_idx, start) ==
    IF buf[end_idx + 1] < 57
    THEN [buf |-> [buf EXCEPT ![end_idx + 1] = @ + 1], carry |-> FALSE]
    ELSE LET b0 == [buf EXCEPT ![end_idx + 1] = 48]
         IN IF end_idx - 1 < start THEN [buf |-> b0, carry |-> TRUE]
            ELSE Ripple(b0, end_idx - 1, start)

\* next_line_num without lines 118-120: line_num_print_idx never moves
next_line_num_FixedPrint(buf, start, print) ==
    LET r == Ripple(buf, Len(buf) - 2, start)
    IN IF ~r.carry THEN [buf |-> r.buf, start |-> start, print |-> print]
       ELSE LET s1 == IF start > 0 THEN start - 1 ELSE start
                b1 == IF start > 0 THEN [r.buf EXCEPT ![s1 + 1] = 49]
                      ELSE [r.buf EXCEPT ![1] = 62]
            IN [buf |-> b1, start |-> s1, print |-> print]

\* next_line_num without the else branch of lines 114-116: no '>' is written
next_line_num_NoMarker(buf, start, print) ==
    LET r == Ripple(buf, Len(buf) - 2, start)
    IN IF ~r.carry THEN [buf |-> r.buf, start |-> start, print |-> print]
       ELSE LET s1 == IF start > 0 THEN start - 1 ELSE start
                b1 == IF start > 0 THEN [r.buf EXCEPT ![s1 + 1] = 49] ELSE r.buf
            IN [buf |-> b1, start |-> s1,
                print |-> IF s1 < print THEN print - 1 ELSE print]

\* next_line_num on (line_num_buf, line_num_start_idx, line_num_print_idx)
next_line_num(buf, start, print) ==
    LET r == Ripple(buf, Len(buf) - 2, start)
    IN IF ~r.carry THEN [buf |-> r.buf, start |-> start, print |-> print]
       ELSE LET s1 == IF start > 0 THEN start - 1 ELSE start
                b1 == IF start > 0 THEN [r.buf EXCEPT ![s1 + 1] = 49]
                      ELSE [r.buf EXCEPT ![1] = 62]
            IN [buf |-> b1, start |-> s1,
                print |-> IF s1 < print THEN print - 1 ELSE print]

\* line_num_buf[line_num_print_idx:]
Field(c) == SubSeq(c.buf, c.print + 1, Len(c.buf))

Counter == [buf |-> line_num_buf, start |-> line_num_start_idx,
            print |-> line_num_print_idx]

\* the decimal digits of a count, one more: calls counts the calls of
\* next_line_num of the run (every call changes line_num_buf)
RECURSIVE DecSucc(_)
DecSucc(ds) ==
    IF ds = <<>> THEN <<1>>
    ELSE IF ds[Len(ds)] < 9 THEN [ds EXCEPT ![Len(ds)] = @ + 1]
    ELSE DecSucc(SubSeq(ds, 1, Len(ds) - 1)) \o <<0>>

SetCounter(c) ==
    /\ line_num_buf' = c.buf
    /\ line_num_start_idx' = c.start
    /\ line_num_print_idx' = c.print
    /\ calls' = IF c # Counter THEN DecSucc(calls) ELSE calls

\* one call of next_line_num, in the runs that follow the counter alone
NextLineNumCall ==
    /\ pc = "next_line_num"
    /\ calls[Len(calls)] # StopDigit
    /\ SetCounter(next_line_num(line_num_buf, line_num_start_idx,
                                line_num_print_idx))
    /\ UNCHANGED <<opts, new_lines_static, mainv, envv, stdin_data, stdin_open,
                   fDes, src, catv, stdout, pc, exit_code, panicking, fault,
                   handled, result, flushed>>

\* -------------------------------------------------------- character loops
\* one character in the show_nonprinting loop: what is appended, or the
\* newline that ends the loop
NonprintingCharDelLiteral(c) ==
    IF c >= 32
    THEN [nl |-> FALSE, out |->
            IF c <= 127 THEN <<c>>
            ELSE <<77, 45>> \o
                 (IF c >= 128 + 32
                  THEN (IF c < 128 + 127 THEN <<c - 128>> ELSE <<94, 63>>)
                  ELSE <<94, c - 128 + 64>>)]
    ELSE IF c = TAB /\ ~show_tabs THEN [nl |-> FALSE, out |-> <<TAB>>]
    ELSE IF c = NL THEN [nl |-> TRUE, out |-> <<>>]
    ELSE [nl |-> FALSE, out |-> <<94, c + 64>>]

NonprintingChar(c) ==
    IF c >= 32
    THEN [nl |-> FALSE, out |->
            IF c < 127 THEN <<c>>
            ELSE IF c = 127 THEN <<94, 63>>
            ELSE <<77, 45>> \o
                 (IF c >= 128 + 32
                  THEN (IF c < 128 + 127 THEN <<c - 128>> ELSE <<94, 63>>)
                  ELSE <<94, c - 128 + 64>>)]
    ELSE IF c = TAB /\ ~show_tabs THEN [nl |-> FALSE, out |-> <<TAB>>]
    ELSE IF c = NL THEN [nl |-> TRUE, out |-> <<>>]
    ELSE [nl |-> FALSE, out |-> <<94, c + 64>>]

\* one character in the plain loop
PlainChar(c) ==
    IF c = TAB /\ show_tabs THEN [nl |-> FALSE, out |-> <<94, c + 64>>]
    ELSE IF c # NL THEN [nl |-> FALSE, out |-> <<c>>]
    ELSE [nl |-> TRUE, out |-> <<>>]

\* --------------------------------------------------------------------- cat
\* the write loop of the flush check, entered with remaining >= out_size: each
\* turn writes out_buf[start:start+out_size]; the slices written, and start
\* and remaining_bytes when the loop is left
RECURSIVE BlockLoop(_, _, _)
BlockLoop(out, start, remaining) ==
    LET w == SubSeq(out, start + 1, start + out_bSize)
        rem1 == remaining - out_bSize
        start1 == start + out_bSize
    IN IF rem1 < out_bSize
       THEN [writes |-> <<w>>, start |-> start1, remaining |-> rem1]
       ELSE LET r == BlockLoop(out, start1, rem1)
            IN [r EXCEPT !.writes = <<w>> \o @]

RECURSIVE Concat(_)
Concat(ws) == IF ws = <<>> THEN <<>> ELSE Head(ws) \o Concat(Tail(ws))

\* a flush that writes the whole buffer in one write
FlushBlocksWhole(out, k) == IF k > 0 THEN out ELSE <<>>
\* what the first k writes of the loop put on standard output
FlushBlocks(out, k) == Concat(Take(BlockLoop(out, 0, Len(out)).writes, k))

\* the top of the inner loop: while out_buf holds out_size bytes or more,
\* blocks of out_size bytes are written; write number j may fail (an error
\* returns false, a short write panics) and then writes nothing.  After the
\* loop the remaining bytes are moved to the front of out_buf.  flushed
\* records what a completed check found and wrote.
CatFlush ==
    /\ pc = "cat_top"
    /\ IF Len(out_buf) >= out_bSize
       THEN LET r == BlockLoop(out_buf, 0, Len(out_buf))
                k == Len(r.writes)
            IN \E j \in 0..k, kind \in {"write", "short"} :
                 /\ stdout' = stdout \o FlushBlocks(out_buf, j)
                 /\ IF j = k
                    THEN /\ out_buf' = SubSeq(out_buf, r.start + 1,
                                              r.start + r.remaining)
                         /\ pc' = "cat_in"
                         /\ flushed' = [before |-> out_buf, sink |-> stdout,
                                        writes |-> r.writes]
                         /\ UNCHANGED <<fault, result>>
                    ELSE /\ fault' = kind
                         /\ result' = IF kind = "write" THEN "fail" ELSE "panic"
                         /\ pc' = "hf_return"
                         /\ UNCHANGED <<out_buf, flushed>>
       ELSE /\ pc' = "cat_in"
            /\ flushed' = [before |-> out_buf, sink |-> stdout, writes |-> <<>>]
            /\ UNCHANGED <<stdout, out_buf, fault, result>>
    /\ UNCHANGED <<opts, new_lines_static, counter, mainv, envv, stdin_data,
                   stdin_open, fDes, src, in_buf, in_cap, in_size, new_lines, ch,
                   exit_code, panicking, handled>>

\* the fetch ch = in_buf[0]; in_buf = in_buf[1:], which also takes one from
\* the capacity of in_buf
Fetched(buf) == [ch |-> Head(buf), in_buf |-> Tail(buf)]

\* in_buf after a read of the bytes data, were no sentinel appended
WithoutSentinel(data) == data
\* in_buf after a read of the bytes data: in_buf[:n_read] and the sentinel
WithSentinel(data) == data \o <<NL>>

\* what the bytes-available inquiry may leave in n_to_read: nothing or some
\* bytes available (1 stands for every count above 0); n_to_read stays 0 when
\* the inquiry fails or is not made
InquiryValues == IF use_fionread THEN {0, 1} ELSE {0}

\* in_buf is empty: the bytes-available inquiry, the read into
\* in_buf[:cap(in_buf)-1], the sentinel, and the fetch of the first byte
CatRead ==
    /\ pc = "cat_in"
    /\ in_buf = <<>>
    /\ \E n_to_read \in InquiryValues, wfail \in BOOLEAN, rfail \in BOOLEAN,
          n \in 0..Max(0, Min(Len(src), in_cap - 1)) :
         LET flush1 == n_to_read = 0 /\ out_buf # <<>>
             out1 == IF flush1 THEN <<>> ELSE out_buf
             std1 == IF flush1 THEN stdout \o out_buf ELSE stdout
             atEnd == src = <<>> \/ in_cap - 1 = 0
         IN /\ (n = 0) = (atEnd \/ in_cap - 1 < 0)
            /\ IF flush1 /\ wfail
               THEN \* write_pending panics
                    /\ fault' = "write" /\ result' = "panic" /\ pc' = "hf_return"
                    /\ UNCHANGED <<stdout, out_buf, src, in_buf, in_cap, ch,
                                   new_lines_static>>
               ELSE IF in_cap - 1 < 0
               THEN \* slice bounds out of range
                    /\ result' = "panic" /\ pc' = "hf_return"
                    /\ stdout' = std1 /\ out_buf' = out1
                    /\ UNCHANGED <<fault, src, in_buf, in_cap, ch,
                                   new_lines_static>>
               ELSE IF (rfail \/ n = 0) /\ out1 # <<>> /\ wfail
               THEN \* write_pending panics before the return
                    /\ fault' = "write" /\ result' = "panic" /\ pc' = "hf_return"
                    /\ stdout' = std1 /\ out_buf' = out1
                    /\ UNCHANGED <<src, in_buf, in_cap, ch, new_lines_static>>
               ELSE IF rfail \/ n = 0
               THEN /\ fault' = IF rfail THEN "read" ELSE fault
                    /\ result' = IF rfail THEN "fail" ELSE "ok"
                    /\ pc' = "hf_return"
                    /\ stdout' = std1 \o out1 /\ out_buf' = <<>>
                    /\ new_lines_static' = new_lines
                    /\ UNCHANGED <<src, in_buf, in_cap, ch>>
               ELSE LET f == Fetched(WithSentinel(Take(src, n)))
                    IN /\ src' = Drop(src, n)
                       /\ ch' = f.ch /\ in_buf' = f.in_buf
                       /\ in_cap' = in_cap - 1
                       /\ pc' = IF f.ch # NL THEN "cat_line" ELSE "cat_top"
                       /\ stdout' = std1 /\ out_buf' = out1
                       /\ UNCHANGED <<fault, result, new_lines_static>>
    /\ flushed' = NoFlush
    /\ UNCHANGED <<opts, counter, mainv, envv, stdin_data, stdin_open, fDes,
                   in_size, new_lines, exit_code, panicking, handled>>

\* the variables of cat() that its loops change without input or output
CatState == [in_buf |-> in_buf, in_cap |-> in_cap, out_buf |-> out_buf,
             new_lines |-> new_lines, ch |-> ch, ctr |-> Counter, pc |-> pc,
             result |-> result]

SetCatState(s) ==
    /\ in_buf' = s.in_buf /\ in_cap' = s.in_cap /\ out_buf' = s.out_buf
    /\ new_lines' = s.new_lines /\ ch' = s.ch /\ SetCounter(s.ctr)
    /\ pc' = s.pc /\ result' = s.result

\* where the squeeze branch goes after its fetch of byte c: Go's continue in
\* a for loop re-enters the loop body and tests no condition
SqueezeNext(c) == "cat_top"

\* in_buf is not empty, so the newline just fetched was a real one.  It is
\* counted, then squeezed or emitted (numbered when blank lines are numbered,
\* with '$' under show_ends), and the next byte is fetched.
NewlineStep(s) ==
    LET nl1 == s.new_lines + 1
        nl2 == IF nl1 >= 2 THEN 2 ELSE nl1
        f == Fetched(s.in_buf)
        numbered == nl1 > 0 /\ number /\ ~number_nonblank
        c1 == IF numbered THEN next_line_num(s.ctr.buf, s.ctr.start, s.ctr.print)
              ELSE s.ctr
    IN IF nl1 >= 2 /\ squeeze_blank
       THEN [s EXCEPT !.new_lines = nl2, !.ch = f.ch, !.in_buf = f.in_buf,
                      !.in_cap = @ - 1, !.pc = SqueezeNext(f.ch)]
       ELSE [s EXCEPT !.new_lines = nl2, !.ch = f.ch, !.in_buf = f.in_buf,
                      !.in_cap = @ - 1, !.ctr = c1,
                      !.out_buf = @ \o (IF numbered THEN Field(c1) ELSE <<>>)
                                    \o (IF show_ends THEN <<36>> ELSE <<>>)
                                    \o <<NL>>,
                      !.pc = IF f.ch # NL THEN "cat_line" ELSE "cat_top"]

\* whether the line that starts gets a number
NumberLine(nl) == nl >= 0 /\ number

\* a byte that is no newline was fetched: at the beginning of a line the
\* line number is appended when lines are numbered
LineStartStep(s) ==
    LET num == NumberLine(s.new_lines)
        c1 == IF num THEN next_line_num(s.ctr.buf, s.ctr.start, s.ctr.print)
              ELSE s.ctr
    IN [s EXCEPT !.ctr = c1,
                 !.out_buf = @ \o (IF num THEN Field(c1) ELSE <<>>),
                 !.pc = "cat_chars"]

\* one iteration of a character loop: ch is rendered and the next byte is
\* fetched (a fetch from an empty in_buf panics), or ch is the newline, real
\* or sentinel, that ends the loop
CharStep(s) ==
    LET r == IF show_nonprinting THEN NonprintingChar(s.ch) ELSE PlainChar(s.ch)
    IN IF r.nl THEN [s EXCEPT !.new_lines = -1, !.pc = "cat_top"]
       ELSE IF s.in_buf = <<>>
       THEN [s EXCEPT !.out_buf = @ \o r.out, !.result = "panic",
                      !.pc = "hf_return"]
       ELSE [s EXCEPT !.out_buf = @ \o r.out, !.ch = Fetched(s.in_buf).ch,
                      !.in_buf = Fetched(s.in_buf).in_buf, !.in_cap = @ - 1]

CatNewline ==
    /\ pc = "cat_in"
    /\ in_buf # <<>>
    /\ SetCatState(NewlineStep(CatState))
    /\ flushed' = NoFlush
    /\ UNCHANGED <<opts, new_lines_static, mainv, envv, stdin_data, stdin_open,
                   fDes, src, in_size, stdout, exit_code, panicking, fault,
                   handled>>

CatLineStart ==
    /\ pc = "cat_line"
    /\ SetCatState(LineStartStep(CatState))
    /\ UNCHANGED <<flushed, opts, new_lines_static, mainv, envv, stdin_data, stdin_open,
                   fDes, src, in_size, stdout, exit_code, panicking, fault,
                   handled>>

CatChar ==
    /\ pc = "cat_chars"
    /\ SetCatState(CharStep(CatState))
    /\ UNCHANGED <<flushed, opts, new_lines_static, mainv, envv, stdin_data, stdin_open,
                   fDes, src, in_size, stdout, exit_code, panicking, fault,
                   handled>>

\* ---------------------------------------------------------- specifications
Next ==
    \/ MainStart
    \/ MainArg
    \/ MainSpecial
    \/ DeferCall
    \/ MainDone
    \/ HandleFile
    \/ HandleFileReturn
    \/ SimpleCat
    \/ CatFlush
    \/ CatRead
    \/ CatNewline
    \/ CatLineStart
    \/ CatChar

\* the whole program on short argument lists over fixed files
Spec == Init /\ [][Next]_vars

\* the whole program on one input file, over every option combination, every
\* input up to MaxLen and every chunking of the reads
SpecCat == InitCat /\ [][Next]_vars

\* the whole program on two input files
SpecPair == InitPair /\ [][Next]_vars

\* cat() alone with every option false, up to the return of handle_file
NextFast ==
    \/ CatFlush
    \/ CatRead
    \/ CatNewline
    \/ CatLineStart
    \/ CatChar
    \/ HandleFileReturn
SpecFast == InitFast /\ [][NextFast]_vars

\* next_line_num alone, from the counter states of InitCounter
NextCounter == NextLineNumCall
SpecCounter == InitCounter /\ [][NextCounter]_vars

\* ------------------------------------------------- what the claims expect
\* the options as the claims name them
ClaimOpt == [number_nonblank |-> number_nonblank, number |-> number,
             squeeze_blank |-> squeeze_blank,
             show_nonprinting |-> show_nonprinting,
             show_tabs |-> show_tabs, show_ends |-> show_ends]

RECURSIVE Digits(_)
Digits(k) == IF k < 10 THEN <<48 + k>> ELSE Digits(k \div 10) \o <<48 + (k % 10)>>

\* line number k right-justified in six positions, then a tab
NumField(k) ==
    [j \in 1..Max(0, 6 - Len(Digits(k))) |-> 32] \o Digits(k) \o <<TAB>>

\* the policy table of the escaping, read literally: a byte of 0x80 or more
\* is "M-" and the table's rendering of its low seven bits
RECURSIVE TableRender(_, _)
TableRender(o, b) ==
    IF b >= 32 /\ b < 127 THEN <<b>>
    ELSE IF b = TAB THEN (IF o.show_tabs THEN <<94, 73>> ELSE <<TAB>>)
    ELSE IF ~o.show_nonprinting THEN <<b>>
    ELSE IF b = 127 THEN <<94, 63>>
    ELSE IF b >= 128 THEN <<77, 45>> \o TableRender(o, b % 128)
    ELSE <<94, b + 64>>

\* the table as the code has it: under "M-" every low byte below 0x20, tab
\* included, is '^' and the byte plus 0x40
AmendedRender(o, b) ==
    IF o.show_nonprinting /\ b >= 128 /\ b % 128 < 32 THEN <<77, 45, 94, (b % 128) + 64>>
    ELSE TableRender(o, b)

\* the output the claims expect of one run over the bytes rest: atStart says
\* that a line starts here, blanks counts the blank lines just before, k is
\* the last line number used
RECURSIVE Expect(_, _, _, _, _)
Expect(o, rest, atStart, blanks, k) ==
    IF rest = <<>> THEN <<>>
    ELSE LET b == Head(rest)
             end == (IF o.show_ends THEN <<36>> ELSE <<>>) \o <<NL>>
         IN IF b = NL /\ atStart
            THEN IF o.squeeze_blank /\ blanks >= 1
                 THEN Expect(o, Tail(rest), TRUE, blanks, k)
                 ELSE LET num == o.number /\ ~o.number_nonblank
                          k1 == IF num THEN k + 1 ELSE k
                      IN (IF num THEN NumField(k1) ELSE <<>>) \o end
                         \o Expect(o, Tail(rest), TRUE, 1, k1)
            ELSE IF b = NL
            THEN end \o Expect(o, Tail(rest), TRUE, 0, k)
            ELSE LET num == atStart /\ (o.number \/ o.number_nonblank)
                     k1 == IF num THEN k + 1 ELSE k
                 IN (IF num THEN NumField(k1) ELSE <<>>) \o TableRender(o, b)
                    \o Expect(o, Tail(rest), FALSE, 0, k1)

Expected(input) == Expect(ClaimOpt, input, TRUE, 0, 0)

\* what cat() emits when one read delivers the whole input: its loops run
\* over the input and the sentinel, from the state of a first invocation
RECURSIVE OneChunkRun(_)
OneChunkRun(s) ==
    IF s.pc \in {"cat_top", "cat_in"}
    THEN IF s.in_buf = <<>> THEN s.out_buf ELSE OneChunkRun(NewlineStep(s))
    ELSE IF s.pc = "cat_line" THEN OneChunkRun(LineStartStep(s))
    ELSE IF s.pc = "cat_chars" THEN OneChunkRun(CharStep(s))
    ELSE s.out_buf

OneChunk(input) ==
    IF input = <<>> THEN <<>>
    ELSE LET f == Fetched(input \o <<NL>>)
         IN OneChunkRun([in_buf |-> f.in_buf, in_cap |-> 0, out_buf |-> <<>>,
                         new_lines |-> 0, ch |-> f.ch,
                         ctr |-> [buf |-> InitLineNumBuf,
                                  start |-> LINE_COUNTER_BUF_LEN - 2,
                                  print |-> LINE_COUNTER_BUF_LEN - 7],
                         pc |-> IF f.ch # NL THEN "cat_line" ELSE "cat_top",
                         result |-> "none"])

\* the run is over and the environment failed no read and no write
Finished == pc = "exit" /\ fault = "none"
\* the input's handle reports the large block size: in_buf holds every input
\* of the runs with room to spare
RoomyBuffer == blksize = BigBlksize

\* ------------------------------------------------------------------ claims
\* C1: with no display option active, whatever the input and however the
\* reads split it, simple_cat has written exactly the bytes read so far, and
\* when it returns it returns success with the whole input written.
C1_PlainCopy ==
    (NoDisplayOption /\ fault = "none" /\ fDes = "file") =>
        /\ pc = "simple_cat" => stdout \o src = fs.f
        /\ pc = "hf_return" => (result = "ok" /\ stdout = fs.f)

C1_Witness ==
    /\ pc = "hf_return" /\ NoDisplayOption /\ fDes = "file" /\ result = "ok"
    /\ Len(fs.f) = MaxLen /\ stdout = fs.f

\* C2: whatever the options, what cat() has emitted when the run is over is
\* what it emits when a single read delivers the whole input, for every way
\* the reads split the input.
C2_ChunkInvariant ==
    (Finished /\ ~NoDisplayOption /\ RoomyBuffer) => stdout = OneChunk(fs.f)

\* C3: with number active (number_nonblank and squeeze_blank off), an input
\* of N lines that ends in a newline comes out as N lines numbered 1..N in
\* order, blank lines included, however the reads split it.
C3_LineCount ==
    (Finished /\ number /\ ~number_nonblank /\ ~squeeze_blank
        /\ fs.f # <<>> /\ fs.f[Len(fs.f)] = NL)
    => (exit_code = 0 /\ stdout = Expected(fs.f))

\* C4: with squeeze_blank active every run of two or more blank lines comes
\* out as one blank line and every other line comes out as without the
\* option.
C4_Squeeze ==
    (Finished /\ squeeze_blank /\ ~number_nonblank /\ RoomyBuffer)
    => stdout = Expected(fs.f)

\* C5: with show_ends active (no squeezing, no number_nonblank) a '$' stands
\* before the newline of every line of the input and nowhere else: not at a
\* read boundary, not at the end of an input without a final newline.
C5_ShowEnds ==
    (Finished /\ show_ends /\ ~squeeze_blank /\ ~number_nonblank)
    => (exit_code = 0 /\ stdout = Expected(fs.f))

\* C6 as claimed: a single byte other than newline, under each combination of
\* show_nonprinting and show_tabs, is emitted as the policy table renders it,
\* a byte of 0x80 or more as "M-" and the table's rendering of its low bits.
C6_PolicyTable ==
    (Finished /\ Len(fs.f) = 1 /\ fs.f[1] # NL
        /\ ~(number \/ number_nonblank \/ squeeze_blank \/ show_ends))
    => stdout = TableRender(ClaimOpt, fs.f[1])

\* C6 as amended: the same, except that under show_nonprinting a byte of 0x80
\* or more whose low seven bits are below 0x20 (tab and newline included) is
\* "M-^" and the low bits plus 0x40, whatever show_tabs is.
C6_PolicyTableAmended ==
    (Finished /\ Len(fs.f) = 1 /\ fs.f[1] # NL
        /\ ~(number \/ number_nonblank \/ squeeze_blank \/ show_ends))
    => stdout = AmendedRender(ClaimOpt, fs.f[1])

C6_Witness ==
    /\ Finished /\ fs.f = <<137>> /\ show_nonprinting /\ ~show_tabs
    /\ stdout = <<77, 45, 94, 73>>

\* C7: with number_nonblank given, with or without number, every non-empty
\* line is numbered 1, 2, 3, ... and no empty line is numbered.
C7_NumberNonblank ==
    (Finished /\ number_nonblank /\ ~squeeze_blank /\ RoomyBuffer)
    => stdout = Expected(fs.f)

\* the input specifiers among the arguments: every argument checkForFlag
\* does not take for a flag, by position (from 0) and by name
IsInput(a) == Len(a) = 0 \/ a[1] # "-" \/ Len(a) = 1
InputIdx(as) == SelectSeq([k \in 1..Len(as) |-> k - 1], LAMBDA k : IsInput(as[k + 1]))
InputNames(as) == [k \in 1..Len(InputIdx(as)) |-> as[InputIdx(as)[k] + 1][1]]

\* C8: numbering goes on across the inputs of one run: "a\nb\n" (file f) and
\* then "c\n" (file g) under number come out numbered 1, 2, 3.
C8_CounterContinuity ==
    (Finished /\ number /\ ~number_nonblank /\ ~squeeze_blank /\ ~show_ends
        /\ special_flag = "" /\ RoomyBuffer /\ InputNames(args) = <<"f", "g">>)
    => stdout = Expected(FileF \o FileG)

\* C9: when the run is over (no special flag, no failed read or write, no
\* panic; every input exists and is named once) every input specifier has
\* been handled exactly once, in the order of the arguments.
C9_InputOrder ==
    (Finished /\ special_flag = "" /\ ~panicking
        /\ (\A k \in 1..Len(InputNames(args)) : InputNames(args)[k] # "x")
        /\ \A j, k \in 1..Len(InputNames(args)) :
              InputNames(args)[j] = InputNames(args)[k] => j = k)
    => handled = InputIdx(args)

\* C10: with the inputs f (exists), x (does not), g (exists) and no flag, the
\* run ends with the contents of f and of g written, in this order, and with
\* a nonzero exit status.
C10_PartialFailure ==
    (Finished /\ args = << <<"f">>, <<"x">>, <<"g">> >>)
    => (stdout = FileF \o FileG /\ exit_code # 0)

\* C11: with no help, version or invalid flag, when the run is over the exit
\* status is 0 exactly when every input of the argument list succeeded (here:
\* exists), and 1 when some input failed, whatever its position.
C11_ExitStatus ==
    (Finished /\ special_flag = "" /\ ~panicking)
    => LET allOk == \A k \in 1..Len(InputNames(args)) : InputNames(args)[k] # "x"
       IN exit_code = (IF allOk THEN 0 ELSE 1)

\* C12: once the arguments are parsed with help or version as the special
\* flag in effect, the process has exited with status 0, no input has been
\* opened or read, standard input is untouched and standard output holds the
\* help or version text only; and no input is touched while the arguments are
\* still being parsed, wherever the flag stands among them.
C12_HelpVersion ==
    /\ pc \in {"main", "main_loop"} => (handled = <<>> /\ stdout = <<>>)
    /\ (special_flag \in {"help", "version"} /\ pc \notin {"main", "main_loop"})
       => /\ pc = "exit" /\ exit_code = 0
          /\ handled = <<>> /\ fDes = "none" /\ stdin_open
          /\ stdin_data = StdinData
          /\ stdout = (IF special_flag = "help" THEN UsageText ELSE VersionText)

C12_Witness ==
    /\ pc = "exit" /\ special_flag = "version" /\ exit_code = 0
    /\ args = << <<"f">>, <<"-", "-", "version">>, <<"-">> >>
    /\ handled = <<>>

\* C13: a flush check that finds L >= B bytes in the output buffer (B the
\* block size) and whose writes succeed has issued exactly L div B writes,
\* write j being block j of B bytes of the buffer, and has kept the last
\* L mod B bytes as the new buffer content, so that what is written followed
\* by what is buffered is the same sequence before and after.
C13_FlushProtocol ==
    (pc = "cat_in" /\ Len(flushed.before) >= out_bSize)
    => LET L == Len(flushed.before)
           B == out_bSize
           k == L \div B
       IN /\ Len(flushed.writes) = k
          /\ \A j \in 1..k :
                flushed.writes[j] = SubSeq(flushed.before, (j - 1) * B + 1, j * B)
          /\ stdout = flushed.sink \o Concat(flushed.writes)
          /\ out_buf = SubSeq(flushed.before, k * B + 1, L)
          /\ Len(out_buf) = L % B
          /\ stdout \o out_buf = flushed.sink \o flushed.before

C13_Witness ==
    /\ pc = "cat_in" /\ Len(flushed.before) = 2 * out_bSize + 2
    /\ Len(flushed.writes) = 2 /\ Len(out_buf) = 2
    /\ flushed.sink # <<>>

\* C14: whenever cat() has returned, with success or with failure (end of
\* input, read error, write error), its output buffer is empty: every byte it
\* had transformed has been written to standard output.
C14_FinalFlush ==
    (pc = "hf_return" /\ result \in {"ok", "fail"}) => out_buf = <<>>

\* everything cat() has emitted in this run: written, or still in out_buf
Total == stdout \o out_buf

\* C15: what cat() has written when it is over (no read or write failing)
\* does not depend on what the bytes-available inquiry reported: it is what a
\* run with the same reads writes when every inquiry reports 0, that is, when
\* the pending output is written before every read, namely all of Total.
C15_InquiryTransparent ==
    (pc = "hf_return" /\ fDes = "file" /\ ~NoDisplayOption /\ fault = "none")
    => stdout = Total

\* the digit positions of line_num_buf (all but the tab)
FieldDigits == LINE_COUNTER_BUF_LEN - 1

\* the field the claims expect for the count with decimal digits ds: the
\* digits right-justified in six positions, or as many as there are digits,
\* then a tab
NumFieldOf(ds) ==
    [j \in 1..Max(0, 6 - Len(ds)) |-> 32] \o [j \in 1..Len(ds) |-> 48 + ds[j]]
        \o <<TAB>>

\* C16: after the k-th call of next_line_num, as long as k has no more digits
\* than the field, line_num_buf[line_num_print_idx:] is k in decimal,
\* right-justified in six positions (in as many as it has digits once it has
\* more than six) and followed by one tab.
C16_FieldFormat ==
    (calls # <<0>> /\ Len(calls) <= FieldDigits)
    => Field(Counter) = NumFieldOf(calls)

C16_Witness ==
    /\ pc = "next_line_num" /\ calls = <<1, 0, 0, 0, 0, 0, 0>>
    /\ Len(Field(Counter)) = 8 /\ line_num_print_idx = 11

\* C17: once the count has more digits than the field (a carry has left a
\* window that spans the whole field), the field has not grown: the buffer
\* keeps its length, both indices are 0, the field is the whole buffer, its
\* first character is '>' and its last the tab, after that call and after
\* every later one; and at all times the indices are within the buffer.
C17_Overflow ==
    /\ Len(line_num_buf) = LINE_COUNTER_BUF_LEN
    /\ line_num_start_idx \in 0..(LINE_COUNTER_BUF_LEN - 2)
    /\ line_num_print_idx \in 0..(LINE_COUNTER_BUF_LEN - 7)
    /\ Len(calls) > FieldDigits
       => /\ line_num_start_idx = 0 /\ line_num_print_idx = 0
          /\ Field(Counter) = line_num_buf
          /\ line_num_buf[1] = 62
          /\ line_num_buf[LINE_COUNTER_BUF_LEN] = TAB
          /\ \A j \in 2..FieldDigits : line_num_buf[j] \in 48..57

C17_Witness ==
    /\ pc = "next_line_num"
    /\ calls = <<1>> \o [j \in 1..FieldDigits |-> 0]
    /\ line_num_buf = <<62>> \o [j \in 1..(FieldDigits - 1) |-> 48] \o <<TAB>>

\* the counter states the runs start from are the ones the calls lead to
CounterClosed == Counter = CounterAfter(calls)

\* C18: with squeeze_blank, when the first input ends in a blank line and the
\* second begins with one, the output of the run is that of the two inputs
\* taken as one: the blank lines on both sides of the boundary come out as
\* one blank line, and the rest of the second input follows.
C18_CrossInputSqueeze ==
    (Finished /\ ~panicking /\ squeeze_blank /\ RoomyBuffer
        /\ args = << <<"-", "s">>, <<"f">>, <<"g">> >>
        /\ Len(fs.f) >= 2 /\ fs.f[Len(fs.f)] = NL /\ fs.f[Len(fs.f) - 1] = NL
        /\ fs.g # <<>> /\ fs.g[1] = NL)
    => stdout = Expected(fs.f \o fs.g)

\* C19: outside handle_file no Source is open (a file handle_file opened is
\* closed on each of its exit paths, before anything else is done), and the
\* standard input handle, which handle_file did not open, is never closed.
C19_SourceRelease ==
    /\ pc \in {"main", "main_loop", "defers", "handle_file", "exit"}
       => fDes = "none"
    /\ stdin_open

\* C20: at every point of cat()'s loops, whatever the options, the input and
\* the reads, a non-empty in_buf ends with the sentinel newline, a character
\* loop that holds a byte other than newline (and so fetches another) has a
\* non-empty in_buf to fetch from, and no step of a character loop fetches
\* from an empty buffer.
C20_SentinelSafety ==
    (pc \in {"cat_top", "cat_in", "cat_line", "cat_chars"})
    => /\ in_buf # <<>> => in_buf[Len(in_buf)] = NL
       /\ (pc \in {"cat_line", "cat_chars"} /\ ch # NL) => in_buf # <<>>
       /\ pc = "cat_chars" => CharStep(CatState).result # "panic"

C20_Witness ==
    /\ pc = "cat_chars" /\ ch = NL /\ in_buf = <<>>
    /\ src # <<>> /\ out_buf # <<>> /\ show_nonprinting

\* C21: for every option combination and every input, delivered in any
\* number of non-empty reads, cat() comes to its end by returning success with
\* the whole input read: when handle_file is about to return from a run of
\* cat() in which no read and no write failed, the result is success and no
\* byte of the input is left unread.
C21_Termination ==
    (pc = "hf_return" /\ fDes = "file" /\ ~NoDisplayOption /\ fault = "none")
    => (result = "ok" /\ src = <<>>)

\* C22: when the first input does not end in a newline and the second does
\* not begin with one, the second input continues the line the first one left
\* open: the output of the run is that of the two inputs taken as one, with
\* no line number, no '$' and no newline at the boundary, and the joined line
\* numbered once.
C22_UnterminatedLine ==
    (Finished /\ ~panicking /\ number /\ show_ends /\ RoomyBuffer
        /\ fs.f # <<>> /\ fs.f[Len(fs.f)] # NL
        /\ fs.g # <<>> /\ fs.g[1] # NL)
    => stdout = Expected(fs.f \o fs.g)

FastPathRoomy ==
    (pc = "hf_return" /\ fault = "none" /\ RoomyBuffer
        /\ NoDisplayOption /\ ~number_nonblank)
    => (result = "ok" /\ stdout = fs.f)
====
